---- MODULE Spec2Model ----
(***************************************************************************)
(* Model of src/gui.py (class QKDSatelliteSystem): the QKD pipeline        *)
(* simulate_qkd_satellite, the Tk handlers that drive it, and the          *)
(* animation driver thread run_animation.                                  *)
(*                                                                         *)
(* Representation.  Bits and basis labels are the characters "0" and "1"   *)
(* of the source's strings, kept in sequences.  A float is kept in         *)
(* hundredths (2.0 is 200); a draw of random_sample() in [0,1) is kept in  *)
(* hundredths too (0..99).  A message is a sequence of Unicode code        *)
(* points; bytes are 0..255.  Python indices are 0-based, sequence         *)
(* positions 1-based: s[i] of the source is s[i + 1] here.                 *)
(***************************************************************************)
EXTENDS Integers, Sequences, FiniteSets, TLC

(***************************************************************************)
(* Bounds of the model (the source's values are given for each).           *)
(***************************************************************************)
\* src/gui.py:1045 sequence_length = 1024, scaled
sequence_length == 32
\* period of the repeated patterns that the sampled bit sequences are drawn from
PatternLen == 3
\* longest message, in code points
MaxMsgLen == 3
\* src/gui.py:617 total_photons = 20, scaled
total_photons == 2
\* src/gui.py:661 steps = 20 (frames of one photon flight), scaled
photon_steps == 2
\* src/gui.py:744 steps = 15 (classical packets of phase 3), scaled
classical_steps == 3
\* src/gui.py:759 and 783 range(10) (frames of one classical packet), scaled
packet_frames == 1
\* src/gui.py:835 range(10) (data packets of phase 5), scaled
data_packets == 1
\* src/gui.py:847 range(15) (frames of one data packet), scaled
data_frames == 1

(***************************************************************************)
(* Program constants.                                                      *)
(***************************************************************************)
min_key_size == 16
timeline_length == 20
bits_per_byte == 8

Hundredths(x) == x * 100

Min(a, b) == IF a < b THEN a ELSE b
Max(a, b) == IF a > b THEN a ELSE b

Bit == {"0", "1"}

(***************************************************************************)
(* Python built-ins used by the pipeline.                                  *)
(***************************************************************************)
\* s[a:b] of a str or bytes, 0 <= a
Slice(s, a, b) == SubSeq(s, a + 1, Min(b, Len(s)))

\* list(range(0, n, step))
RangeStep(n, step) == [k \in 1..((n + step - 1) \div step) |-> (k - 1) * step]

\* int(s, 2) of a non-empty string of binary digits
RECURSIVE ParseBinary(_)
ParseBinary(s) ==
    IF Len(s) = 0 THEN 0
    ELSE 2 * ParseBinary(SubSeq(s, 1, Len(s) - 1)) + (IF s[Len(s)] = "1" THEN 1 ELSE 0)

\* a ^ b of two non-negative ints
RECURSIVE BitXor(_, _)
BitXor(a, b) ==
    IF a = 0 /\ b = 0 THEN 0
    ELSE (((a % 2) + (b % 2)) % 2) + 2 * BitXor(a \div 2, b \div 2)

\* seq * n of bytes
Repeat(seq, n) ==
    IF Len(seq) = 0 \/ n <= 0 THEN <<>>
    ELSE [k \in 1..(Len(seq) * n) |-> seq[((k - 1) % Len(seq)) + 1]]

\* the pairing of zip(a, b): as long as the shorter argument
ZipLen(a, b) == Min(Len(a), Len(b))

RECURSIVE Concat(_)
Concat(seqs) == IF seqs = <<>> THEN <<>> ELSE Head(seqs) \o Concat(Tail(seqs))

\* str.encode('utf-8') of one code point below 0x10000
Utf8OfCodePoint(cp) ==
    IF cp < 128 THEN <<cp>>
    ELSE IF cp < 2048 THEN <<192 + (cp \div 64), 128 + (cp % 64)>>
    ELSE <<224 + (cp \div 4096), 128 + ((cp \div 64) % 64), 128 + (cp % 64)>>

EncodeUtf8(text) == Concat([k \in 1..Len(text) |-> Utf8OfCodePoint(text[k])])

\* bytes.decode('utf-8'): the code points, or <<-1>> where Python raises
\* UnicodeDecodeError
DecodeError == <<-1>>

IsContinuation(b) == b >= 128 /\ b < 192

RECURSIVE DecodeUtf8(_)
DecodeUtf8(bytes) ==
    IF bytes = <<>> THEN <<>>
    ELSE LET b == bytes[1]
             n == IF b < 128 THEN 1
                  ELSE IF b >= 194 /\ b < 224 THEN 2
                  ELSE IF b >= 224 /\ b < 240 THEN 3
                  ELSE 0
         IN  IF n = 0 \/ Len(bytes) < n
                \/ \E k \in 2..n : ~IsContinuation(bytes[k])
             THEN DecodeError
             ELSE LET cp == IF n = 1 THEN b
                            ELSE IF n = 2 THEN (b - 192) * 64 + (bytes[2] - 128)
                            ELSE (b - 224) * 4096 + (bytes[2] - 128) * 64
                                 + (bytes[3] - 128)
                      rest == DecodeUtf8(SubSeq(bytes, n + 1, Len(bytes)))
                  IN  IF rest = DecodeError
                         \/ (n = 3 /\ cp < 2048)
                         \/ (cp >= 55296 /\ cp < 57344)
                      THEN DecodeError
                      ELSE <<cp>> \o rest

HexDigits ==
    <<"0", "1", "2", "3", "4", "5", "6", "7", "8", "9", "a", "b", "c", "d", "e", "f">>

\* bytes.hex()
Hex(bytes) ==
    Concat([k \in 1..Len(bytes) |->
              <<HexDigits[(bytes[k] \div 16) + 1], HexDigits[(bytes[k] % 16) + 1]>>])

(***************************************************************************)
(* numpy.random, as a function of the draws it makes.                      *)
(***************************************************************************)
\* np.random.uniform(low, high) = low + (high - low) * random_sample(),
\* with u = random_sample() in hundredths
uniform(low, high, u) == Hundredths(low) + (high - low) * u

\* np.random.randint(low, high): low + an offset below high - low
randint(low, high, offset) == low + (offset % (high - low))

\* np.random.choice(['0', '1'], size=n): the next n draws of the stream
choice(stream, n) == SubSeq(stream, 1, n)

(***************************************************************************)
(* simulate_qkd_satellite, lines 1043-1157: the pipeline, stage by stage.  *)
(* rnd holds the draws the call takes from np.random: alice_bases,         *)
(* bob_bases, raw_bits and key_stream are streams of '0'/'1' choices,      *)
(* qber_u, entropy_u, compromise_u and confidence_u are random_sample()    *)
(* values, security_offset is the offset randint adds to its low end, and  *)
(* timeline holds, per entry, the sample q behind uniform() and the        *)
(* sample s behind random().                                               *)
(***************************************************************************)
\* [i for i in range(sequence_length) if alice_bases[i] == bob_bases[i]], from
\* index on
RECURSIVE MatchingFrom(_, _, _)
MatchingFrom(index, alice_bases, bob_bases) ==
    IF index >= sequence_length THEN <<>>
    ELSE (IF alice_bases[index + 1] = bob_bases[index + 1] THEN <<index>> ELSE <<>>)
         \o MatchingFrom(index + 1, alice_bases, bob_bases)

\* a faulty variant: the comprehension starts at index 1
MatchingIndicesFromOne(alice_bases, bob_bases) == MatchingFrom(1, alice_bases, bob_bases)

MatchingIndices(alice_bases, bob_bases) == MatchingFrom(0, alice_bases, bob_bases)

\* (matching_bases / sequence_length) * 100, kept as the exact fraction num/den
MatchingPercentage(matching_bases) ==
    [num |-> matching_bases * 100, den |-> sequence_length]

\* a faulty variant: the bits are taken in descending index order
RawKeyReversed(raw_bits, matching_indices) ==
    [k \in 1..Len(matching_indices) |->
        raw_bits[matching_indices[Len(matching_indices) + 1 - k] + 1]]

\* ''.join([raw_bits[i] for i in matching_indices])
RawKey(raw_bits, matching_indices) ==
    [k \in 1..Len(matching_indices) |-> raw_bits[matching_indices[k] + 1]]

\* a faulty variant: the interception range reaches 35
QberWide(simulate_interception, u) ==
    IF simulate_interception THEN uniform(15, 35, u) ELSE uniform(2, 8, u)

\* a faulty variant: the range without interception reaches 11
QberOverlapping(simulate_interception, u) ==
    IF simulate_interception THEN uniform(15, 25, u) ELSE uniform(2, 11, u)

Qber(simulate_interception, u) ==
    IF simulate_interception THEN uniform(15, 25, u) ELSE uniform(2, 8, u)

\* a faulty variant: detection is decided by a threshold in both branches
InterceptDetectedByThreshold(simulate_interception, qber) == qber > Hundredths(20)

\* a faulty variant: without interception the detection starts above 5.0
InterceptDetectedAboveFive(simulate_interception, qber) ==
    IF simulate_interception THEN TRUE ELSE qber > Hundredths(5)

InterceptDetected(simulate_interception, qber) ==
    IF simulate_interception THEN TRUE ELSE qber > Hundredths(11)

\* int(raw_key_size * 0.2) and int(raw_key_size * 0.1): the products are
\* non-negative, and int() truncates them
ErrorCorrectionReduction(raw_key_size) == (raw_key_size * 2) \div 10

PrivacyAmplificationReduction(raw_key_size) == raw_key_size \div 10

\* a faulty variant: the key is floored at one byte
FinalKeySizeFloor8(raw_key_size) ==
    Max(raw_key_size - ErrorCorrectionReduction(raw_key_size)
                     - PrivacyAmplificationReduction(raw_key_size),
        bits_per_byte)

FinalKeySize(raw_key_size) ==
    Max(raw_key_size - ErrorCorrectionReduction(raw_key_size)
                     - PrivacyAmplificationReduction(raw_key_size),
        min_key_size)

\* bytes([int(final_key[i:i+8], 2) for i in range(0, len(final_key), 8)])
KeyBytes(final_key) ==
    LET starts == RangeStep(Len(final_key), bits_per_byte)
    IN  [k \in 1..Len(starts) |->
           ParseBinary(Slice(final_key, starts[k], starts[k] + bits_per_byte))]

\* a faulty variant: one repetition too few
KeyRepeatedShort(key_bytes, message_bytes) ==
    Repeat(key_bytes, Len(message_bytes) \div Len(key_bytes))

\* key_bytes * (len(message_bytes) // len(key_bytes) + 1)
KeyRepeated(key_bytes, message_bytes) ==
    Repeat(key_bytes, (Len(message_bytes) \div Len(key_bytes)) + 1)

\* bytes([a ^ b for a, b in zip(data, keystream)])
XorBytes(data, keystream) ==
    [k \in 1..ZipLen(data, keystream) |-> BitXor(data[k], keystream[k])]

Encrypt(message_bytes, key_repeated) ==
    XorBytes(message_bytes, Slice(key_repeated, 0, Len(message_bytes)))

\* a faulty variant: decryption starts one byte into the keystream
DecryptOffByOne(encrypted_message, key_repeated) ==
    XorBytes(encrypted_message, Slice(key_repeated, 1, Len(encrypted_message) + 1))

Decrypt(encrypted_message, key_repeated) ==
    XorBytes(encrypted_message, Slice(key_repeated, 0, Len(encrypted_message)))

SecurityStatus(intercept_detected) ==
    IF intercept_detected THEN "COMPROMISED" ELSE "SECURE"

\* a faulty variant: the channel is reported secure whatever was detected
ChannelSecurityAlwaysSecure(intercept_detected) == "SECURE"

ChannelSecurity(intercept_detected) ==
    IF intercept_detected THEN "INSECURE" ELSE "SECURE"

CompromiseEstimate(intercept_detected, u) ==
    IF intercept_detected THEN uniform(20, 60, u) ELSE 0

\* 99.9 in hundredths where no intercept was detected
ConfidenceLevel(intercept_detected, u) ==
    IF intercept_detected THEN uniform(70, 99, u) ELSE Hundredths(100) - 10

\* a faulty variant: every entry is drawn as for a secure channel
TimelineEntrySecure(intercept_detected, draw) ==
    [qber |-> uniform(1, 8, draw.q),
     status |-> IF draw.s < 90 THEN "SECURE" ELSE "CHECK"]

TimelineEntry(intercept_detected, draw) ==
    IF intercept_detected
    THEN [qber |-> uniform(12, 25, draw.q),
          status |-> IF draw.s < 70 THEN "WARNING" ELSE "ALERT"]
    ELSE [qber |-> uniform(1, 8, draw.q),
          status |-> IF draw.s < 90 THEN "SECURE" ELSE "CHECK"]

SecurityTimeline(intercept_detected, draws) ==
    [k \in 1..timeline_length |-> TimelineEntry(intercept_detected, draws[k])]

\* every local the call ends with, the returned dict's keys among them
simulate_qkd_satellite(message, simulate_interception, rnd) ==
    LET alice_bases == choice(rnd.alice_bases, sequence_length)
        bob_bases == choice(rnd.bob_bases, sequence_length)
        raw_bits == choice(rnd.raw_bits, sequence_length)
        matching_indices == MatchingIndices(alice_bases, bob_bases)
        matching_bases == Len(matching_indices)
        raw_key == RawKey(raw_bits, matching_indices)
        raw_key_size == Len(raw_key)
        qber == Qber(simulate_interception, rnd.qber_u)
        intercept_detected == InterceptDetected(simulate_interception, qber)
        final_key_size == FinalKeySize(raw_key_size)
        final_key == choice(rnd.key_stream, final_key_size)
        key_bytes == KeyBytes(final_key)
        message_bytes == EncodeUtf8(message)
        key_repeated == KeyRepeated(key_bytes, message_bytes)
        encrypted_message == Encrypt(message_bytes, key_repeated)
        decrypted_message == Decrypt(encrypted_message, key_repeated)
        security_parameter == randint(50, 200, rnd.security_offset)
    IN  [original_message |-> message,
         encrypted_message |-> Hex(encrypted_message),
         decrypted_message |-> DecodeUtf8(decrypted_message),
         alice_bases |-> alice_bases,
         bob_bases |-> bob_bases,
         matching_bases |-> matching_bases,
         matching_percentage |-> MatchingPercentage(matching_bases),
         raw_key |-> raw_key,
         raw_key_size |-> raw_key_size,
         final_key |-> final_key,
         final_key_size |-> final_key_size,
         qber |-> qber,
         qber_threshold |-> Hundredths(10),
         intercept_detected |-> intercept_detected,
         security_status |-> SecurityStatus(intercept_detected),
         security_timeline |-> SecurityTimeline(intercept_detected, rnd.timeline),
         entropy_reduction |-> uniform(10, 20, rnd.entropy_u),
         security_parameter |-> security_parameter,
         max_leakage |-> [base |-> 2, exponent |-> [num |-> 0 - security_parameter, den |-> 8]],
         channel_security |-> ChannelSecurity(intercept_detected),
         compromise_estimate |-> CompromiseEstimate(intercept_detected, rnd.compromise_u),
         confidence_level |-> ConfidenceLevel(intercept_detected, rnd.confidence_u),
         \* the argument, and locals that are not returned
         simulate_interception |-> simulate_interception,
         raw_bits |-> raw_bits,
         matching_indices |-> matching_indices,
         key_bytes |-> key_bytes,
         message_bytes |-> message_bytes,
         key_repeated |-> key_repeated,
         encrypted_bytes |-> encrypted_message,
         decrypted_bytes |-> decrypted_message]

ResultKeys ==
    {"original_message", "encrypted_message", "decrypted_message", "alice_bases",
     "bob_bases", "matching_bases", "matching_percentage", "raw_key", "raw_key_size",
     "final_key", "final_key_size", "qber", "qber_threshold", "intercept_detected",
     "security_status", "security_timeline", "entropy_reduction", "security_parameter",
     "max_leakage", "channel_security", "compromise_estimate", "confidence_level"}

\* the dict the call returns (lines 1134-1157)
Results(locals) == [k \in ResultKeys |-> locals[k]]

(***************************************************************************)
(* The draws of np.random that the runs are checked on.                    *)
(***************************************************************************)
\* pattern repeated to length n
Cyclic(pattern, n) == [k \in 1..n |-> pattern[((k - 1) % Len(pattern)) + 1]]

CyclicBits(n) == {Cyclic(pattern, n) : pattern \in [1..PatternLen -> Bit]}

\* m ones, then zeros
StepBits(n) == {[k \in 1..n |-> IF k <= m THEN "1" ELSE "0"] : m \in 0..n}

Zeros(n) == [k \in 1..n |-> "0"]

\* the longest final key: the raw key is at most sequence_length bits
KeyStreamLen == Max(sequence_length, min_key_size)

UnitDraws == {0, 50, 99}

TimelineDraws ==
    {Cyclic(pattern, timeline_length) :
        pattern \in [1..2 -> [q : {0, 99}, s : {69, 70, 89, 90}]]}

DefaultRnd ==
    [alice_bases |-> Zeros(sequence_length),
     bob_bases |-> Cyclic(<<"0", "1", "0">>, sequence_length),
     raw_bits |-> Cyclic(<<"1", "1", "0">>, sequence_length),
     qber_u |-> 50,
     key_stream |-> Cyclic(<<"0", "1", "1">>, KeyStreamLen),
     entropy_u |-> 50,
     security_offset |-> 75,
     compromise_u |-> 50,
     confidence_u |-> 50,
     timeline |-> Cyclic(<<[q |-> 0, s |-> 69], [q |-> 99, s |-> 90]>>, timeline_length)]

\* line 164: the entry starts as "Hello Quantum World!"
Hello ==
    <<72, 101, 108, 108, 111, 32, 81, 117, 97, 110, 116, 117, 109, 32,
      87, 111, 114, 108, 100, 33>>

\* 'H', e-acute and the euro sign: one, two and three bytes of UTF-8
Alphabet == {72, 233, 8364}

Messages == UNION {[1..n -> Alphabet] : n \in 0..MaxMsgLen}

RndBases ==
    {[DefaultRnd EXCEPT !.alice_bases = a, !.bob_bases = b, !.raw_bits = r] :
        a \in CyclicBits(sequence_length),
        b \in CyclicBits(sequence_length) \cup StepBits(sequence_length),
        r \in CyclicBits(sequence_length)}

RndKeys ==
    {[DefaultRnd EXCEPT !.bob_bases = b, !.key_stream = ks] :
        b \in {Zeros(sequence_length), [k \in 1..sequence_length |-> "1"]},
        ks \in CyclicBits(KeyStreamLen)}

RndAssessment ==
    {[DefaultRnd EXCEPT !.qber_u = q, !.compromise_u = c, !.confidence_u = l,
                        !.timeline = t] :
        q \in UnitDraws, c \in UnitDraws, l \in UnitDraws, t \in TimelineDraws}

RndParameters ==
    {[DefaultRnd EXCEPT !.entropy_u = e, !.security_offset = o] :
        e \in UnitDraws, o \in {0, 74, 149, 150}}

\* what the pipeline is run on: a message in the entry and the draws it will take
PipelineInputs ==
    {[message |-> Hello, rnd |-> rnd] : rnd \in RndBases \cup RndAssessment \cup RndParameters}
    \cup {[message |-> m, rnd |-> rnd] : m \in Messages \cup {Hello}, rnd \in RndKeys}

\* the draws a run of the application may find in the generator
RndGUI == {DefaultRnd}

\* np.random is one generator for the whole process (lines 341-348, 629-723 and
\* 1046-1130 all call it, and nothing seeds or copies it): a value one caller
\* has drawn is not delivered to the next.  The bit draws of lines 1046-1082,
\* in one stream
BitStream(rnd) == rnd.alice_bases \o rnd.bob_bases \o rnd.raw_bits \o rnd.key_stream

\* the draws a run will take once another caller has taken n values first: its
\* bit draws move up n places in the stream (which is as long as the draws
\* that are modelled, so its end continues with its beginning)
AfterDraws(rnd, n) ==
    LET stream == BitStream(rnd)
        moved == [k \in 1..Len(stream) |-> stream[((k - 1 + n) % Len(stream)) + 1]]
        a == Len(rnd.alice_bases)
        b == a + Len(rnd.bob_bases)
        r == b + Len(rnd.raw_bits)
    IN  [rnd EXCEPT !.alice_bases = SubSeq(moved, 1, a),
                    !.bob_bases = SubSeq(moved, a + 1, b),
                    !.raw_bits = SubSeq(moved, b + 1, r),
                    !.key_stream = SubSeq(moved, r + 1, Len(moved))]

(***************************************************************************)
(* State.                                                                  *)
(***************************************************************************)
VARIABLES
    message_entry,      \* text of the message entry (line 162)
    interception_var,   \* the "Simulate Interception" BooleanVar (line 172)
    rng,                \* the draws the process-wide np.random will deliver to the next run
    sim,                \* locals of the last call of simulate_qkd_satellite
    display,            \* results shown in the summary/details/security text areas
    security_states,    \* self.security_states (line 28)
    progress,           \* what the progress window of the last run reported
    last_run,           \* how the last call of run_simulation ended
    animation_running,  \* self.animation_running (line 29)
    animation_thread,   \* self.animation_thread (line 30) and the state of its thread
    threads_alive,      \* driver threads started (line 463) and not yet ended
    pc,                 \* where the driver thread is in run_animation
    phase,              \* locals of run_animation (lines 543, 584-587, 629-630, 662, 759, 808)
    photon_count,
    matched_bases,
    error_bits,
    alice_basis,
    bob_basis,
    i,
    j,
    interceptor_x,
    error_percentage,
    terminal,           \* the branch of phase 5 that was taken
    photons_sent,       \* per-photon events the thread has emitted (line 626)
    cancel_issued       \* a stop was requested while this thread was in phase 1

pipeline_vars == <<message_entry, rng, sim, display, security_states, progress, last_run>>

flag_vars == <<animation_running, animation_thread, threads_alive>>

thread_vars ==
    <<pc, phase, photon_count, matched_bases, error_bits, alice_basis, bob_basis, i, j,
      interceptor_x, error_percentage, terminal, photons_sent>>

vars == <<pipeline_vars, interception_var, flag_vars, thread_vars, cancel_issued>>

NoCall == [called |-> FALSE]
NoResults == [shown |-> FALSE]
Unset == "unset"
\* error_percentage before line 808 has assigned it
NoPercentage == [num |-> 0, den |-> 0]
Basis == {"Rectilinear (H/V)", "Diagonal (D/A)"}

\* lines 1012-1026
steps ==
    <<"Generating entangled photon pairs...", "Distributing quantum states...",
      "Measuring quantum states...", "Performing basis reconciliation...",
      "Estimating quantum bit error rate...", "Error correction in progress...",
      "Privacy amplification...", "Generating final key...", "Encrypting message...",
      "Transmitting data...", "Decrypting message...", "Verifying security...",
      "Finalizing results...">>

\* a faulty variant: the loop is entered a second time before the completion
ProgressReportsRestarted ==
    [k \in 1..(2 * Len(steps)) |->
        [value |-> [num |-> ((k - 1) % Len(steps)) * 100, den |-> Len(steps)],
         label |-> steps[((k - 1) % Len(steps)) + 1]]]
    \o <<[value |-> [num |-> 100, den |-> 1], label |-> "Completed!"]>>

\* lines 1029-1037: one report per step, value (i / len(steps)) * 100 as a
\* fraction, then the report of completion
ProgressReports ==
    [k \in 1..Len(steps) |->
        [value |-> [num |-> (k - 1) * 100, den |-> Len(steps)], label |-> steps[k]]]
    \o <<[value |-> [num |-> 100, den |-> 1], label |-> "Completed!"]>>

\* the locals of run_animation as lines 584-587 set them; those assigned later
\* are unset.  A thread that has ended has no locals: they are kept at these
\* values, and so is a loop's scratch local (alice_basis, bob_basis, i, j)
\* between its loop's end and its next assignment.
InitialLocals ==
    /\ phase' = 1
    /\ photon_count' = 0
    /\ matched_bases' = 0
    /\ error_bits' = 0
    /\ alice_basis' = Unset
    /\ bob_basis' = Unset
    /\ i' = 0
    /\ j' = 0
    /\ interceptor_x' = Unset
    /\ error_percentage' = NoPercentage
    /\ terminal' = Unset
    /\ photons_sent' = 0

InitThread ==
    /\ animation_running = FALSE
    /\ animation_thread = "None"
    /\ threads_alive = 0
    /\ pc = "none"
    /\ phase = 1
    /\ photon_count = 0
    /\ matched_bases = 0
    /\ error_bits = 0
    /\ alice_basis = Unset
    /\ bob_basis = Unset
    /\ i = 0
    /\ j = 0
    /\ interceptor_x = Unset
    /\ error_percentage = NoPercentage
    /\ terminal = Unset
    /\ photons_sent = 0
    /\ cancel_issued = FALSE

\* __init__, lines 26-30, 164 and 172
Init ==
    /\ message_entry = Hello
    /\ interception_var = FALSE
    /\ rng \in RndGUI
    /\ sim = NoCall
    /\ display = NoResults
    /\ security_states = <<>>
    /\ progress = <<>>
    /\ last_run = "none"
    /\ InitThread

\* the application as constructed, with the entry, the checkbox and the
\* generator in any of the states the pipeline is checked on
InitPipeline ==
    /\ \E input \in PipelineInputs :
          /\ message_entry = input.message
          /\ rng = input.rnd
    /\ interception_var \in BOOLEAN
    /\ sim = NoCall
    /\ display = NoResults
    /\ security_states = <<>>
    /\ progress = <<>>
    /\ last_run = "none"
    /\ InitThread

(***************************************************************************)
(* The handlers of the Tk main loop.  Each runs to completion on the main  *)
(* thread.                                                                 *)
(***************************************************************************)
\* the thread has started and has not left the loop of phase 1 (lines 467-727)
InDistribution ==
    /\ animation_thread = "alive"
    /\ phase = 1
    /\ pc \in {"setup", "while_photon", "photon_frame", "photon_measure"}

\* a faulty variant: a thread is started whether or not one is alive
toggle_animation_unguarded ==
    IF animation_running
    THEN /\ animation_running' = FALSE
         /\ cancel_issued' =
               (cancel_issued \/ (InDistribution /\ photons_sent < total_photons))
         /\ UNCHANGED <<animation_thread, threads_alive, thread_vars>>
    ELSE /\ animation_running' = TRUE
         /\ animation_thread' = "alive"
         /\ threads_alive' = threads_alive + 1
         /\ pc' = "setup"
         /\ InitialLocals
         /\ cancel_issued' = FALSE

\* toggle_animation, lines 448-463
toggle_animation ==
    IF animation_running
    THEN /\ animation_running' = FALSE
         /\ cancel_issued' =
               (cancel_issued \/ (InDistribution /\ photons_sent < total_photons))
         /\ UNCHANGED <<animation_thread, threads_alive, thread_vars>>
    ELSE /\ animation_running' = TRUE
         /\ IF animation_thread # "alive"
            THEN /\ animation_thread' = "alive"
                 /\ threads_alive' = threads_alive + 1
                 /\ pc' = "setup"
                 /\ InitialLocals
                 /\ cancel_issued' = FALSE
            ELSE UNCHANGED <<animation_thread, threads_alive, thread_vars, cancel_issued>>

\* the Start/Stop Animation button, line 249
ToggleAnimation ==
    /\ toggle_animation
    /\ UNCHANGED <<pipeline_vars, interception_var>>

\* stop_simulation, lines 425-430
StopSimulation ==
    /\ IF animation_running
       THEN toggle_animation
       ELSE UNCHANGED <<flag_vars, thread_vars, cancel_issued>>
    /\ UNCHANGED <<pipeline_vars, interception_var>>

\* reset_visualization, lines 432-446
reset_visualization ==
    IF animation_running
    THEN toggle_animation
    ELSE UNCHANGED <<flag_vars, thread_vars, cancel_issued>>

\* a faulty variant: the reset also empties the stored timeline
ResetVisualizationDropsStates ==
    /\ reset_visualization
    /\ security_states' = <<>>
    /\ UNCHANGED <<message_entry, rng, sim, display, progress, last_run, interception_var>>

ResetVisualization ==
    /\ reset_visualization
    /\ UNCHANGED <<pipeline_vars, interception_var>>

\* clear_results, lines 410-423
ClearResults ==
    /\ display' = NoResults
    /\ reset_visualization
    /\ UNCHANGED <<message_entry, rng, sim, security_states, progress, last_run,
                   interception_var>>

\* the checkbox and the menu's checkbutton, lines 173 and 306
SetInterception ==
    /\ interception_var' = ~interception_var
    /\ UNCHANGED <<pipeline_vars, flag_vars, thread_vars, cancel_issued>>

\* the user edits the entry
SetMessage ==
    /\ message_entry' \in {<<>>, Hello} \ {message_entry}
    /\ UNCHANGED <<rng, sim, display, security_states, progress, last_run,
                   interception_var, flag_vars, thread_vars, cancel_issued>>

\* a faulty variant: the check of the message is missing
MessageRejectedNever(message) == FALSE

\* "if not message", line 877
MessageRejected(message) == message = <<>>

\* run_simulation, lines 876-879: the empty message
RunSimulationRejected ==
    /\ MessageRejected(message_entry)
    /\ last_run' = "rejected"
    /\ UNCHANGED <<message_entry, rng, sim, display, security_states, progress,
                   interception_var, flag_vars, thread_vars, cancel_issued>>

\* simulate_qkd_satellite on the entry's initial text and the generator's
\* initial draws, for either setting of the checkbox
DefaultRuns ==
    [off |-> simulate_qkd_satellite(Hello, FALSE, DefaultRnd),
     on |-> simulate_qkd_satellite(Hello, TRUE, DefaultRnd)]

\* the call of line 891; its value on the initial inputs is DefaultRuns'
Simulate(message, simulate_interception, rnd) ==
    IF message = Hello /\ rnd = DefaultRnd
    THEN (IF simulate_interception THEN DefaultRuns.on ELSE DefaultRuns.off)
    ELSE simulate_qkd_satellite(message, simulate_interception, rnd)

\* display_results, lines 936-953: the "Status" line of the security analysis
ThresholdStatus(results) ==
    IF results.intercept_detected
    THEN "Above threshold (potential eavesdropping)"
    ELSE "Below threshold (no evidence of eavesdropping)"

\* run_simulation, lines 881-894, with simulate_qkd_satellite (977-1157) and
\* display_results (896-975)
RunSimulationAccepted ==
    /\ ~MessageRejected(message_entry)
    /\ progress' = ProgressReports
    /\ sim' = Simulate(message_entry, interception_var, rng)
    /\ display' = Results(sim')
    /\ security_states' = display'.security_timeline
    /\ rng' \in RndGUI
    /\ last_run' = "completed"
    /\ IF ~animation_running
       THEN toggle_animation
       ELSE UNCHANGED <<flag_vars, thread_vars, cancel_issued>>
    /\ UNCHANGED <<message_entry, interception_var>>

RunSimulation == RunSimulationRejected \/ RunSimulationAccepted

\* update_system_status, lines 331-354: the status indicator's timer, started
\* by __init__ (line 51) and rescheduled by itself for ever.  It draws once,
\* and when no animation runs a second time if the first value is 8 or 9.
UpdateSystemStatus ==
    /\ \E drawn \in (IF animation_running THEN {1} ELSE {1, 2}) :
          rng' = AfterDraws(rng, drawn)
    /\ UNCHANGED <<message_entry, sim, display, security_states, progress, last_run,
                   interception_var, flag_vars, thread_vars, cancel_issued>>

(***************************************************************************)
(* run_animation, lines 465-871, on the driver thread.  One action runs    *)
(* from one read of self.animation_running or self.interception_var (or    *)
(* one sleep) to just before the next.                                     *)
(***************************************************************************)
Alive(at) == animation_thread = "alive" /\ pc = at

\* the thread ends: "finished" by returning, "raised" by an uncaught exception
Ended(how) ==
    /\ animation_thread' = how
    /\ threads_alive' = threads_alive - 1
    /\ pc' = "none"
    /\ InitialLocals
    /\ cancel_issued' = FALSE
    /\ UNCHANGED <<pipeline_vars, interception_var, animation_running>>

\* what a step of the thread never writes
ThreadFrame ==
    UNCHANGED <<pipeline_vars, interception_var, flag_vars, cancel_issued>>

\* progress > 0.4 and progress < 0.6, progress = i / steps (line 678)
NearInterceptor(frame) == 10 * frame > 4 * photon_steps /\ 10 * frame < 6 * photon_steps

\* lines 467-620: the scene; Eve is drawn if interception is on
Setup ==
    /\ Alive("setup")
    /\ interceptor_x' = IF interception_var THEN "set" ELSE "None"
    /\ pc' = "while_photon"
    /\ ThreadFrame
    /\ UNCHANGED <<phase, photon_count, matched_bases, error_bits, alice_basis,
                   bob_basis, i, j, error_percentage, terminal, photons_sent>>

\* a faulty variant: the loop admits one photon more
PhotonLoopTestInclusive == animation_running /\ phase = 1 /\ photon_count <= total_photons

\* the test of the while loop, line 623
PhotonLoopTest == animation_running /\ phase = 1 /\ photon_count < total_photons

\* lines 623-661: the loop test holds; the photon's event and bases
PhotonBegin ==
    /\ Alive("while_photon")
    /\ PhotonLoopTest
    /\ photons_sent' = photons_sent + 1
    /\ alice_basis' \in Basis
    /\ bob_basis' \in Basis
    /\ i' = 0
    /\ pc' = "photon_frame"
    /\ ThreadFrame
    /\ UNCHANGED <<phase, photon_count, matched_bases, error_bits, j, interceptor_x,
                   error_percentage, terminal>>

\* line 623: the loop test fails
PhotonLoopExit ==
    /\ Alive("while_photon")
    /\ ~PhotonLoopTest
    /\ pc' = "if_phase2"
    /\ ThreadFrame
    /\ UNCHANGED <<phase, photon_count, matched_bases, error_bits, alice_basis,
                   bob_basis, i, j, interceptor_x, error_percentage, terminal,
                   photons_sent>>

\* lines 677-696: the frame routes Bob's photon through the interceptor
Detour == interception_var /\ NearInterceptor(i)

\* lines 662-708: one frame of the photons' flight
PhotonFrameStep ==
    /\ Alive("photon_frame")
    /\ animation_running
    /\ Detour => interceptor_x # "None"
    /\ IF i + 1 < photon_steps
       THEN i' = i + 1 /\ UNCHANGED pc
       ELSE i' = 0 /\ pc' = "photon_measure"
    /\ ThreadFrame
    /\ UNCHANGED <<phase, photon_count, matched_bases, error_bits, alice_basis,
                   bob_basis, j, interceptor_x, error_percentage, terminal, photons_sent>>

\* lines 690-691 and 695: interceptor_x is None, the arithmetic raises TypeError
PhotonFrameRaise ==
    /\ Alive("photon_frame")
    /\ animation_running
    /\ Detour /\ interceptor_x = "None"
    /\ Ended("raised")

\* lines 663-664: the frame loop breaks on a stop
PhotonFrameBreak ==
    /\ Alive("photon_frame")
    /\ ~animation_running
    /\ i' = 0
    /\ pc' = "photon_measure"
    /\ ThreadFrame
    /\ UNCHANGED <<phase, photon_count, matched_bases, error_bits, alice_basis,
                   bob_basis, j, interceptor_x, error_percentage, terminal, photons_sent>>

\* lines 710-727: Bob measures; the counters
PhotonMeasure ==
    /\ Alive("photon_measure")
    /\ IF bob_basis = alice_basis
       THEN /\ matched_bases' = matched_bases + 1
            /\ \E below_03 \in BOOLEAN :
                  error_bits' = IF interception_var /\ below_03
                                THEN error_bits + 1 ELSE error_bits
       ELSE UNCHANGED <<matched_bases, error_bits>>
    /\ photon_count' = photon_count + 1
    /\ alice_basis' = Unset
    /\ bob_basis' = Unset
    /\ pc' = "while_photon"
    /\ ThreadFrame
    /\ UNCHANGED <<phase, i, j, interceptor_x, error_percentage, terminal, photons_sent>>

\* lines 730-735
IfPhase2 ==
    /\ Alive("if_phase2")
    /\ IF animation_running
       THEN phase' = 2 /\ photon_count' = 0
       ELSE UNCHANGED <<phase, photon_count>>
    /\ pc' = "if_phase3"
    /\ ThreadFrame
    /\ UNCHANGED <<matched_bases, error_bits, alice_basis, bob_basis, i, j,
                   interceptor_x, error_percentage, terminal, photons_sent>>

\* lines 738-744
IfPhase3 ==
    /\ Alive("if_phase3")
    /\ IF animation_running
       THEN phase' = 3 /\ pc' = "classical_step"
       ELSE pc' = "if_phase4" /\ UNCHANGED phase
    /\ i' = 0
    /\ ThreadFrame
    /\ UNCHANGED <<photon_count, matched_bases, error_bits, alice_basis, bob_basis, j,
                   interceptor_x, error_percentage, terminal, photons_sent>>

\* "if i % 3 == 0", line 750: the packet goes from Alice to Bob
AliceToBob(step) == step % 3 = 0

\* lines 750-776: the direction in which the packet of a step travels
PacketDirection(step) == IF AliceToBob(step) THEN "Alice to Bob" ELSE "Bob to Alice"

\* lines 745-757 and 776-780: the next classical packet, or the end of the loop
ClassicalStep ==
    /\ Alive("classical_step")
    /\ IF i < classical_steps /\ animation_running
       THEN pc' = "packet_frame" /\ UNCHANGED i
       ELSE pc' = "if_phase4" /\ i' = 0
    /\ j' = 0
    /\ ThreadFrame
    /\ UNCHANGED <<phase, photon_count, matched_bases, error_bits, alice_basis,
                   bob_basis, interceptor_x, error_percentage, terminal, photons_sent>>

\* lines 759-773 and 783-799: one frame of the packet; after the last one, or
\* on a stop, the packet is deleted and the outer loop goes on
PacketFrame ==
    /\ Alive("packet_frame")
    /\ IF animation_running /\ j + 1 < packet_frames
       THEN j' = j + 1 /\ UNCHANGED <<i, pc>>
       ELSE j' = 0 /\ i' = i + 1 /\ pc' = "classical_step"
    /\ ThreadFrame
    /\ UNCHANGED <<phase, photon_count, matched_bases, error_bits, alice_basis,
                   bob_basis, interceptor_x, error_percentage, terminal, photons_sent>>

\* (error_bits / max(matched_bases, 1)) * 100, as a fraction (line 808)
ErrorPercentage(errors, matched) ==
    [num |-> errors * 100, den |-> Max(matched, 1)]

\* lines 802-819
IfPhase4 ==
    /\ Alive("if_phase4")
    /\ IF animation_running
       THEN /\ phase' = 4
            /\ error_percentage' = ErrorPercentage(error_bits, matched_bases)
       ELSE UNCHANGED <<phase, error_percentage>>
    /\ pc' = "if_phase5"
    /\ ThreadFrame
    /\ UNCHANGED <<photon_count, matched_bases, error_bits, alice_basis, bob_basis, i, j,
                   interceptor_x, terminal, photons_sent>>

\* secure_key = error_percentage <= 10 (line 827)
SecureKey(percentage) == percentage.num <= 10 * percentage.den

\* lines 822-833 and 863-867: phase 5 and its branch
IfPhase5 ==
    /\ Alive("if_phase5")
    /\ animation_running
    /\ error_percentage # NoPercentage
    /\ phase' = 5
    /\ IF SecureKey(error_percentage)
       THEN terminal' = "KEY_ESTABLISHED" /\ pc' = "data_step"
       ELSE terminal' = "ABORTED" /\ pc' = "finish"
    /\ ThreadFrame
    /\ UNCHANGED <<photon_count, matched_bases, error_bits, alice_basis, bob_basis, i, j,
                   interceptor_x, error_percentage, photons_sent>>

\* line 827 reads error_percentage, which line 808 has not assigned:
\* UnboundLocalError
IfPhase5Raise ==
    /\ Alive("if_phase5")
    /\ animation_running
    /\ error_percentage = NoPercentage
    /\ Ended("raised")

\* line 822: stopped
IfPhase5Skip ==
    /\ Alive("if_phase5")
    /\ ~animation_running
    /\ pc' = "finish"
    /\ ThreadFrame
    /\ UNCHANGED <<phase, photon_count, matched_bases, error_bits, alice_basis,
                   bob_basis, i, j, interceptor_x, error_percentage, terminal,
                   photons_sent>>

\* lines 835-844: the next data packet, or the end of the loop
DataStep ==
    /\ Alive("data_step")
    /\ IF i < data_packets /\ animation_running
       THEN pc' = "data_frame" /\ UNCHANGED i
       ELSE pc' = "finish" /\ i' = 0
    /\ j' = 0
    /\ ThreadFrame
    /\ UNCHANGED <<phase, photon_count, matched_bases, error_bits, alice_basis,
                   bob_basis, interceptor_x, error_percentage, terminal, photons_sent>>

\* lines 847-862: one frame of the data packet
DataFrame ==
    /\ Alive("data_frame")
    /\ IF animation_running /\ j + 1 < data_frames
       THEN j' = j + 1 /\ UNCHANGED <<i, pc>>
       ELSE j' = 0 /\ i' = i + 1 /\ pc' = "data_step"
    /\ ThreadFrame
    /\ UNCHANGED <<phase, photon_count, matched_bases, error_bits, alice_basis,
                   bob_basis, interceptor_x, error_percentage, terminal, photons_sent>>

\* lines 869-871, and the return of run_animation
Finish ==
    /\ Alive("finish")
    /\ Ended("finished")

run_animation ==
    \/ Setup
    \/ PhotonBegin
    \/ PhotonLoopExit
    \/ PhotonFrameStep
    \/ PhotonFrameRaise
    \/ PhotonFrameBreak
    \/ PhotonMeasure
    \/ IfPhase2
    \/ IfPhase3
    \/ ClassicalStep
    \/ PacketFrame
    \/ IfPhase4
    \/ IfPhase5
    \/ IfPhase5Raise
    \/ IfPhase5Skip
    \/ DataStep
    \/ DataFrame
    \/ Finish

(***************************************************************************)
(* The application: the main loop's handlers and the driver thread.        *)
(***************************************************************************)
Next ==
    \/ RunSimulation
    \/ ToggleAnimation
    \/ StopSimulation
    \/ ResetVisualization
    \/ ClearResults
    \/ SetInterception
    \/ SetMessage
    \/ run_animation

Spec == Init /\ [][Next]_vars

(***************************************************************************)
(* The pipeline alone: one run of run_simulation from each input.          *)
(***************************************************************************)
NextPipeline == sim = NoCall /\ last_run = "none" /\ RunSimulation

SpecPipeline == InitPipeline /\ [][NextPipeline]_vars

(***************************************************************************)
(* The playback alone, fairly scheduled: the buttons and the checkbox on   *)
(* the main thread, and the driver thread, whose steps are sleeps and      *)
(* canvas updates that return, so that a step that stays possible is       *)
(* eventually taken.  Nothing obliges the user to act.                     *)
(***************************************************************************)
NextPlayback ==
    \/ ToggleAnimation
    \/ StopSimulation
    \/ ResetVisualization
    \/ SetInterception
    \/ run_animation

SpecPlayback == Init /\ [][NextPlayback]_vars /\ WF_vars(run_animation)

(***************************************************************************)
(* The generator followed from a seed: the status timer and one run of the *)
(* pipeline.  (Spec and SpecPipeline take the generator's state at a run   *)
(* as given, whatever was drawn before.)                                   *)
(***************************************************************************)
InitSeeded ==
    /\ message_entry = Hello
    /\ interception_var \in BOOLEAN
    /\ rng \in RndGUI
    /\ sim = NoCall
    /\ display = NoResults
    /\ security_states = <<>>
    /\ progress = <<>>
    /\ last_run = "none"
    /\ InitThread

NextSeeded ==
    \/ UpdateSystemStatus
    \/ sim = NoCall /\ RunSimulationAccepted

SpecSeeded == InitSeeded /\ [][NextSeeded]_vars

(***************************************************************************)
(* Properties of the pipeline, on the locals of the last call.             *)
(***************************************************************************)
Called == sim # NoCall

\* C1: in every result of a non-empty message the decrypted bytes are the
\* message's bytes, and decrypted_message equals original_message.
C1_RoundTrip ==
    Called =>
        /\ sim.decrypted_bytes = sim.message_bytes
        /\ sim.decrypted_message = sim.original_message

\* a message longer than the key bytes, which encryption has changed
C1_Witness ==
    /\ Called
    /\ Len(sim.message_bytes) > Len(sim.key_bytes)
    /\ sim.encrypted_bytes # sim.message_bytes
    /\ sim.decrypted_message = sim.original_message

\* floor(n / d) for n >= 0, d > 0
FloorDiv(n, d) == CHOOSE q \in 0..n : d * q <= n /\ n < d * (q + 1)

\* C2: final_key_size = max(R - floor(0.2 R) - floor(0.1 R), 16) for the raw
\* key length R, so final_key_size >= 16, and final_key has final_key_size bits.
C2_FinalKeySize ==
    Called =>
        LET R == sim.raw_key_size
            reduced == R - FloorDiv(2 * R, 10) - FloorDiv(R, 10)
        IN  /\ R \in 0..sequence_length
            /\ sim.final_key_size = (IF reduced > 16 THEN reduced ELSE 16)
            /\ sim.final_key_size >= 16
            /\ Len(sim.final_key) = sim.final_key_size

\* a raw key long enough for the reduced length to exceed the floor
C2_Witness ==
    /\ Called
    /\ sim.raw_key_size = sequence_length
    /\ sim.final_key_size > 16
    /\ Len(sim.final_key) = sim.final_key_size

\* positions (1-based) at which the two basis sequences agree
AgreeingPositions == {k \in 1..sequence_length : sim.alice_bases[k] = sim.bob_bases[k]}

\* C3: matching_bases is the number of positions where alice_bases and
\* bob_bases agree, and matching_percentage = matching_bases / N * 100.
C3_MatchingCount ==
    Called =>
        /\ Len(sim.alice_bases) = sequence_length
        /\ Len(sim.bob_bases) = sequence_length
        /\ sim.matching_bases = Cardinality(AgreeingPositions)
        /\ sim.matching_percentage.num * sequence_length
              = sim.matching_bases * 100 * sim.matching_percentage.den

\* the bases agree at the first index and disagree at some later ones
C3_Witness ==
    /\ Called
    /\ sim.alice_bases[1] = sim.bob_bases[1]
    /\ sim.matching_bases > 0
    /\ sim.matching_bases < sequence_length
    /\ sim.matching_bases = Cardinality(AgreeingPositions)

\* the n-th smallest element of a set of numbers
NthSmallest(set, n) == CHOOSE x \in set : Cardinality({y \in set : y < x}) = n - 1

\* C4: raw_key is the raw bits at the agreeing positions in ascending order,
\* so raw_key_size = matching_bases.
C4_RawKey ==
    Called =>
        /\ sim.raw_key_size = sim.matching_bases
        /\ Len(sim.raw_key) = Cardinality(AgreeingPositions)
        /\ \A n \in 1..Len(sim.raw_key) :
              sim.raw_key[n] = sim.raw_bits[NthSmallest(AgreeingPositions, n)]

\* a raw key of both bit values, shorter than the sequences
C4_Witness ==
    /\ Called
    /\ sim.raw_key_size > 1
    /\ sim.raw_key_size < sequence_length
    /\ sim.raw_key[1] # sim.raw_key[sim.raw_key_size]
    /\ sim.raw_key_size = sim.matching_bases

\* C5: qber is in [2,8] when simulate_interception is false and in [15,25]
\* when it is true.
C5_QberRange ==
    Called =>
        IF sim.simulate_interception
        THEN sim.qber >= Hundredths(15) /\ sim.qber <= Hundredths(25)
        ELSE sim.qber >= Hundredths(2) /\ sim.qber <= Hundredths(8)

\* interception simulated and a draw near the top of the range
C5_Witness ==
    /\ Called
    /\ sim.simulate_interception
    /\ sim.qber > Hundredths(24)
    /\ sim.qber <= Hundredths(25)

\* C6: with simulate_interception the result has intercept_detected = true
\* and security_status = COMPROMISED, whatever qber was sampled.
C6_InterceptionDetected ==
    (Called /\ sim.simulate_interception) =>
        /\ sim.intercept_detected = TRUE
        /\ sim.security_status = "COMPROMISED"

\* interception simulated, and the lowest qber of its range sampled
C6_Witness ==
    /\ Called
    /\ sim.simulate_interception
    /\ sim.qber = Hundredths(15)
    /\ sim.intercept_detected = TRUE
    /\ sim.security_status = "COMPROMISED"

\* C7: security_timeline has 20 entries; with intercept_detected each has a
\* status in {WARNING, ALERT} and qber in [12,25], otherwise a status in
\* {SECURE, CHECK} and qber in [1,8].
C7_Timeline ==
    Called =>
        /\ Len(sim.security_timeline) = 20
        /\ \A n \in 1..Len(sim.security_timeline) :
              LET entry == sim.security_timeline[n]
              IN  IF sim.intercept_detected
                  THEN /\ entry.status \in {"WARNING", "ALERT"}
                       /\ entry.qber >= Hundredths(12) /\ entry.qber <= Hundredths(25)
                  ELSE /\ entry.status \in {"SECURE", "CHECK"}
                       /\ entry.qber >= Hundredths(1) /\ entry.qber <= Hundredths(8)

\* an intercepted run whose timeline holds both a WARNING and an ALERT
C7_Witness ==
    /\ Called
    /\ sim.intercept_detected
    /\ Len(sim.security_timeline) = 20
    /\ \E n \in 1..20 : sim.security_timeline[n].status = "WARNING"
    /\ \E n \in 1..20 : sim.security_timeline[n].status = "ALERT"

(***************************************************************************)
(* Properties of the application.                                          *)
(***************************************************************************)
\* C8: a call of run_simulation with an empty message is rejected: the
\* pipeline is not called, no progress is reported, no result is produced or
\* displayed, security_states is unchanged and no playback is started.
C8_EmptyMessageRejected ==
    [][/\ (message_entry = <<>> /\ last_run' # last_run) =>
             /\ last_run' = "rejected"
             /\ UNCHANGED <<sim, progress, display, security_states,
                            animation_running, animation_thread, thread_vars>>
       /\ (message_entry = <<>> /\ message_entry' = <<>>) =>
             /\ last_run' \in {last_run, "rejected"}
             /\ UNCHANGED <<sim, progress, security_states>>
             /\ display' \in {display, NoResults}]_vars

\* a rejection after a completed run, with no playback running
C8_Witness ==
    /\ last_run = "rejected"
    /\ message_entry = <<>>
    /\ Called
    /\ display # NoResults
    /\ ~animation_running
    /\ animation_thread = "finished"

\* C9: the driver's phases advance in order with no skipping: either a new
\* thread starts at phase 1, or the phase stays or goes to the next one.
C9_PhasesInOrder ==
    [][\/ phase' = phase
       \/ phase' = phase + 1
       \/ pc' = "setup"
       \/ pc' = "none"]_vars

\* C10: once a stop is requested in DISTRIBUTION after k < total_photons
\* photon events, the thread emits no further photon event and enters no
\* phase beyond DISTRIBUTION.
C10_CancelHaltsDistribution ==
    [][(cancel_issued /\ cancel_issued') =>
          (photons_sent' = photons_sent /\ phase' = 1)]_vars

\* C11: cancellation is never an error: whatever the start/stop requests, the
\* driver thread does not end by an exception at the terminal phase's read of
\* error_percentage (line 827): the variable is assigned before it is read.
C11_CancelNeverRaises ==
    [][pc = "if_phase5" => animation_thread' # "raised"]_vars

\* C12: the pipeline is deterministic in its seed and inputs: a run made with
\* a seed's generator, a message and an interception flag returns what the
\* pipeline computes from that seed's own draws, whatever the other units
\* of the process (the status timer, the driver thread) have drawn meanwhile.
C12_SeedDeterminesResults ==
    Called =>
        \E seed \in RndGUI :
            sim = simulate_qkd_satellite(sim.original_message,
                                         sim.simulate_interception, seed)

\* C13: the progress of a run is the 13 step labels, each once and in their
\* listed order, with values that grow with the index, and after them one
\* report of completion at 100%; a result exists only with the whole sequence
\* reported, and every run reports that same sequence (none is restarted).
C13_ProgressOnce ==
    /\ Called <=> progress # <<>>
    /\ progress # <<>> =>
          /\ Len(progress) = 14
          /\ \A k \in 1..13 :
                /\ progress[k].label = steps[k]
                /\ Cardinality({n \in 1..Len(progress) : progress[n].label = steps[k]}) = 1
                /\ progress[k].value.num * 13 = (k - 1) * 100 * progress[k].value.den
                /\ progress[k].value.num < 100 * progress[k].value.den
          /\ \A k \in 1..12 :
                progress[k].value.num * progress[k + 1].value.den
                    < progress[k + 1].value.num * progress[k].value.den
          /\ progress[14].label = "Completed!"
          /\ progress[14].value.num = 100 * progress[14].value.den
          /\ Cardinality({n \in 1..Len(progress) : progress[n].label = "Completed!"}) = 1
          /\ Cardinality({steps[k] : k \in 1..Len(steps)}) = 13

\* a run made with interception has reported its progress
C13_Witness ==
    /\ last_run = "completed"
    /\ Called /\ sim.simulate_interception
    /\ Len(progress) = 14
    /\ progress[13].label = "Finalizing results..."

\* C14: the driver's terminal phase follows the pipeline's result: once the
\* thread has taken its terminal branch, that branch is KEY_ESTABLISHED
\* exactly when the qber of the computed result is at most 10.0, and ABORTED
\* otherwise.
C14_TerminalFollowsQber ==
    (Called /\ terminal # Unset) =>
        (terminal = (IF sim.qber <= Hundredths(10) THEN "KEY_ESTABLISHED" ELSE "ABORTED"))

\* C15: playback and cancellation leave the result alone: no step of
\* run_animation and no call of toggle_animation, stop_simulation or
\* reset_visualization changes self.security_states or any value of the
\* result the pipeline has returned.
C15_PlaybackKeepsResults ==
    [][(run_animation \/ ToggleAnimation \/ StopSimulation \/ ResetVisualization)
          => UNCHANGED <<security_states, sim>>]_vars

\* a result with interception is stored, its playback has sent every photon
\* with Eve's perturbation counted as errors, and playback was then stopped
C15_Witness ==
    /\ Called /\ sim.simulate_interception
    /\ security_states = sim.security_timeline
    /\ security_states # <<>>
    /\ animation_thread = "alive"
    /\ photons_sent = total_photons
    /\ error_bits > 0
    /\ ~animation_running

\* the bit of weight 2^b in the byte v
BitOf(v, b) == (v \div (2 ^ b)) % 2

\* C16: a final key of L >= 16 bits gives ceil(L/8) >= 2 key bytes, each the
\* most-significant-bit-first value of its chunk of 8 bits (the last chunk may
\* be shorter and is read as a shorter binary number); the keystream applied
\* to the message is the key bytes repeated cyclically and cut to the
\* message's length in bytes, and ciphertext[i] = plaintext[i] XOR
\* keyBytes[i mod ceil(L/8)].
C16_KeyBytesAndKeystream ==
    Called =>
        LET L == Len(sim.final_key)
            n == (L + 7) \div 8
            keystream == Slice(sim.key_repeated, 0, Len(sim.message_bytes))
        IN  /\ L >= 16
            /\ n >= 2
            /\ Len(sim.key_bytes) = n
            /\ \A k \in 1..n :
                  LET width == Min(8, L - 8 * (k - 1))
                  IN  /\ sim.key_bytes[k] \in 0..((2 ^ width) - 1)
                      /\ \A b \in 1..width :
                            (sim.final_key[8 * (k - 1) + b] = "1")
                                <=> (BitOf(sim.key_bytes[k], width - b) = 1)
            /\ Len(keystream) = Len(sim.message_bytes)
            /\ Len(sim.encrypted_bytes) = Len(sim.message_bytes)
            /\ \A p \in 1..Len(sim.message_bytes) :
                  /\ keystream[p] = sim.key_bytes[((p - 1) % n) + 1]
                  /\ sim.encrypted_bytes[p] \in 0..255
                  /\ \A b \in 0..7 :
                        BitOf(sim.encrypted_bytes[p], b)
                            = (BitOf(sim.message_bytes[p], b)
                                  + BitOf(sim.key_bytes[((p - 1) % n) + 1], b)) % 2

\* a key whose last chunk is shorter than a byte, and a message longer than
\* the key bytes and not a whole number of repetitions
C16_Witness ==
    /\ Called
    /\ Len(sim.final_key) % 8 # 0
    /\ Len(sim.message_bytes) > Len(sim.key_bytes)
    /\ Len(sim.message_bytes) % Len(sim.key_bytes) # 0
    /\ \E k \in 1..Len(sim.key_bytes) : sim.key_bytes[k] # 0

\* C17: in every result security_status is COMPROMISED and channel_security
\* is INSECURE exactly when intercept_detected; without a detection both are
\* SECURE, compromise_estimate is 0.0 and confidence_level is 99.9; with one,
\* compromise_estimate lies in [20, 60] and confidence_level in [70, 99].
C17_SecurityAssessment ==
    Called =>
        /\ sim.intercept_detected \in BOOLEAN
        /\ (sim.security_status = "COMPROMISED") <=> sim.intercept_detected
        /\ (sim.channel_security = "INSECURE") <=> sim.intercept_detected
        /\ ~sim.intercept_detected =>
              /\ sim.security_status = "SECURE"
              /\ sim.channel_security = "SECURE"
              /\ sim.compromise_estimate = 0
              /\ sim.confidence_level * 10 = 999 * 100
        /\ sim.intercept_detected =>
              /\ sim.compromise_estimate >= 20 * 100
              /\ sim.compromise_estimate <= 60 * 100
              /\ sim.confidence_level >= 70 * 100
              /\ sim.confidence_level <= 99 * 100

\* a detection, with the lowest compromise estimate and a confidence level
\* drawn near the top of its range
C17_Witness ==
    /\ Called
    /\ sim.intercept_detected
    /\ sim.channel_security = "INSECURE"
    /\ sim.compromise_estimate = 20 * 100
    /\ sim.confidence_level > 98 * 100

\* C18: where interception is not requested, intercept_detected is true
\* exactly when the sampled qber is greater than 11.0; the qber_threshold of
\* every result, of either branch, is 10.0.
C18_DetectionWithoutInterception ==
    Called =>
        /\ ~sim.simulate_interception =>
              (sim.intercept_detected <=> (sim.qber > 11 * 100))
        /\ sim.qber_threshold = 10 * 100

\* no interception requested, the top of the qber range sampled, nothing
\* detected
C18_Witness ==
    /\ Called
    /\ ~sim.simulate_interception
    /\ sim.qber > 7 * 100
    /\ sim.intercept_detected = FALSE
    /\ sim.qber_threshold = 10 * 100

\* the offsets of a draw of security_parameter that are tried
MaxOffset == 400

RandintOffsets == 0..MaxOffset

\* C19: security_parameter is an integer of the closed range [50, 200], and
\* every integer of that range, 200 included, is the value of some draw.
C19_SecurityParameterRange ==
    Called =>
        /\ sim.security_parameter \in 50..200
        /\ \A value \in 50..200 :
              \E offset \in RandintOffsets : randint(50, 200, offset) = value

\* C20: in every result intercept_detected is true exactly when qber is
\* greater than the published qber_threshold, and exactly when interception
\* was requested, so that the "Above threshold"/"Below threshold" line of the
\* security analysis agrees with the qber and the threshold shown next to it.
C20_DetectionAgreesWithThreshold ==
    (Called /\ display # NoResults) =>
        /\ sim.intercept_detected <=> (sim.qber > sim.qber_threshold)
        /\ sim.intercept_detected <=> sim.simulate_interception
        /\ display.qber = sim.qber /\ display.qber_threshold = sim.qber_threshold
        /\ (ThresholdStatus(display) = "Above threshold (potential eavesdropping)")
              <=> (display.qber > display.qber_threshold)
        /\ (ThresholdStatus(display) = "Below threshold (no evidence of eavesdropping)")
              <=> (display.qber <= display.qber_threshold)

\* a result without interception is displayed, its qber the highest of the
\* draws, and the line shown is "Below threshold"
C20_Witness ==
    /\ Called /\ display # NoResults
    /\ ~display.intercept_detected
    /\ display.qber = 2 * 100 + 6 * 99
    /\ ThresholdStatus(display) = "Below threshold (no evidence of eavesdropping)"

\* a playback in which no stop was requested before its last photon event
UncancelledPlayback == animation_thread = "alive" /\ ~cancel_issued

\* the photon whose event was emitted is in flight or being measured
PhotonInFlight == pc \in {"photon_frame", "photon_measure"}

\* C21, as stated: in an uncancelled playback DISTRIBUTION emits one event per
\* photon, in increasing order, MEASUREMENT is entered only after the last
\* photon, and throughout the playback
\* error_bits <= matched_bases <= photon_count <= total_photons.
C21_CountersThroughout ==
    UncancelledPlayback =>
        /\ photons_sent \in 0..total_photons
        /\ phase = 1 => photons_sent = photon_count + (IF PhotonInFlight THEN 1 ELSE 0)
        /\ phase >= 2 => photons_sent = total_photons
        /\ error_bits <= matched_bases
        /\ matched_bases <= photon_count
        /\ photon_count <= total_photons

\* C21, amended: as above, but matched_bases <= photon_count only during
\* DISTRIBUTION; the entry into MEASUREMENT resets photon_count to 0 (line
\* 732), after which error_bits <= matched_bases <= total_photons still holds.
C21_CountersInDistribution ==
    UncancelledPlayback =>
        /\ photons_sent \in 0..total_photons
        /\ phase = 1 => photons_sent = photon_count + (IF PhotonInFlight THEN 1 ELSE 0)
        /\ phase >= 2 => photons_sent = total_photons
        /\ error_bits <= matched_bases
        /\ matched_bases <= total_photons
        /\ phase = 1 => matched_bases <= photon_count
        /\ photon_count <= total_photons
        /\ phase = 2 => photon_count = 0

\* an uncancelled playback has entered MEASUREMENT after every photon, with
\* matched bases and an error counted
C21_Witness ==
    /\ UncancelledPlayback
    /\ phase = 2
    /\ photons_sent = total_photons
    /\ matched_bases = total_photons
    /\ error_bits > 0

\* C22: in RECONCILIATION the classical packets alternate direction: each
\* packet the thread emits travels in the direction opposite to that of the
\* packet emitted immediately before it.
C22_PacketsAlternate ==
    [][(Alive("classical_step") /\ pc' = "packet_frame" /\ i >= 1)
          => PacketDirection(i) # PacketDirection(i - 1)]_vars

\* C23: every playback is finite.  Under fair scheduling a driver thread
\* whose flag stays set from its start reaches KEY_ESTABLISHED or ABORTED, and
\* one whose flag is cleared and not set again ends.
C23_PlaybackFinite ==
    /\ (Alive("setup") /\ animation_running) ~> (terminal # Unset \/ ~animation_running)
    /\ (animation_thread = "alive") ~> (animation_thread # "alive" \/ animation_running)

\* C24: the end of run_animation resets the animation state: once the driver
\* thread has ended, by cancellation or after its terminal phase,
\* animation_running is false, so that the next completed run starts a
\* playback.
C24_EndedThreadResetsFlag ==
    animation_thread = "finished" => ~animation_running

\* C25: at most one driver thread is alive at any time, whatever calls of
\* toggle_animation, stop_simulation, reset_visualization, clear_results and
\* run_simulation are made.
C25_OneDriverThread ==
    /\ threads_alive \in {0, 1}
    /\ threads_alive = 1 <=> animation_thread = "alive"

\* a start was requested again while the stopped thread was still alive, and
\* no second thread was started
C25_Witness ==
    /\ threads_alive = 1
    /\ animation_running
    /\ cancel_issued
    /\ photons_sent > 0

\* C26: every start request begins a fresh playback: when toggle_animation
\* switches animation_running from false to true, the driver is at the start
\* of DISTRIBUTION with photon 1 next and its counters at zero; a playback
\* that was stopped is never continued by a later start.
C26_StartIsFresh ==
    [][(~animation_running /\ animation_running') =>
          /\ animation_thread' = "alive"
          /\ pc' \in {"setup", "while_photon"}
          /\ phase' = 1
          /\ photons_sent' = 0
          /\ photon_count' = 0 /\ matched_bases' = 0 /\ error_bits' = 0]_vars

\* C27: whenever a frame of DISTRIBUTION takes the detour through the Eve
\* relay, the interceptor's position is defined, even if the interception
\* option is switched while the playback is running.
C27_DetourHasInterceptor ==
    (Alive("photon_frame") /\ animation_running /\ Detour) => interceptor_x = "set"

====
